---- MODULE Spec2Model ----
(***************************************************************************)
(* Model of the two command-line tools of knowledge/:                      *)
(*   validate_products_csv.py  (Row Validator)                             *)
(*   add_missing_columns.py    (Column Enricher)                           *)
(*                                                                         *)
(* A CSV file is modelled as what csv.reader yields for it: a sequence of  *)
(* records, each a sequence of field texts; a blank line is the empty      *)
(* record.  A text is a tuple of one-character strings, so that strip()    *)
(* and lower() are computed rather than assumed.  Python's None is the     *)
(* one-element tuple None below, which is not a text.  The cells of the    *)
(* header record hold column names, which are kept whole.                  *)
(***************************************************************************)
EXTENDS Integers, Sequences, FiniteSets, TLC

VARIABLES tool, exists, file, pc, fieldnames, pos, i, bad, stdout, err,
          exit, rows, out, run, out1

vars == <<tool, exists, file, pc, fieldnames, pos, i, bad, stdout, err,
          exit, rows, out, run, out1>>

(* ------------------------------ bounds --------------------------------- *)
\* largest number of records after the header line of an input file
MaxRows == 2

(* ------------------------------ texts ---------------------------------- *)
None == <<"<None>">>

sEmpty    == <<>>
sBlank    == <<" ">>
sTrue     == <<"t","r","u","e">>
sTruePad  == <<" ","T","R","U","E","\t">>
sFalse    == <<"f","a","l","s","e">>
sFalsePad == <<"F","a","l","s","e"," ">>
sYes      == <<"y","e","s">>
sNoneText == <<"N","o","n","e">>
sQuestion == <<"?">>
sS1       == <<"S","1">>
sA        == <<"A">>
sX        == <<"x">>

Range(s) == {s[k] : k \in 1..Len(s)}

\* str(v): None prints as the text None, a text is itself
PyStr(v) == IF v = None THEN sNoneText ELSE v

Whitespace == {" ", "\t", "\n", "\r"}

RECURSIVE LStrip(_)
LStrip(s) == IF s # <<>> /\ Head(s) \in Whitespace THEN LStrip(Tail(s)) ELSE s

RECURSIVE RStrip(_)
RStrip(s) == IF s # <<>> /\ s[Len(s)] \in Whitespace
             THEN RStrip(SubSeq(s, 1, Len(s) - 1)) ELSE s

\* str.strip()
Strip(s) == RStrip(LStrip(s))

UpperAZ == <<"A","B","C","D","E","F","G","H","I","J","K","L","M",
             "N","O","P","Q","R","S","T","U","V","W","X","Y","Z">>
LowerAZ == <<"a","b","c","d","e","f","g","h","i","j","k","l","m",
             "n","o","p","q","r","s","t","u","v","w","x","y","z">>

LowerChar(c) == IF \E k \in 1..Len(UpperAZ) : UpperAZ[k] = c
                THEN LowerAZ[CHOOSE k \in 1..Len(UpperAZ) : UpperAZ[k] = c]
                ELSE c

\* str.lower()
Lower(s) == [k \in 1..Len(s) |-> LowerChar(s[k])]

(* --------------------------- csv.DictReader ---------------------------- *)
\* a header cell holds a column name: the one-element tuple of that name
NameCell(c) == <<c>>

HeaderRecord(fn) == [k \in 1..Len(fn) |-> NameCell(fn[k])]

\* r.fieldnames: the names of the first record of the file, None for a file
\* with no record
ReaderFieldnames(f) == IF f = <<>> THEN None
                       ELSE [k \in 1..Len(f[1]) |-> f[1][k][1]]

LastIndex(fn, c) == CHOOSE k \in 1..Len(fn) :
                      fn[k] = c /\ \A m \in (k+1)..Len(fn) : fn[m] # c

\* the dict DictReader builds for one record: zip(fieldnames, record), a
\* missing value is None (restval), surplus values go under the key None
\* (restkey), kept here in the field rest
DictRow(fn, rec) ==
  [d    |-> [c \in Range(fn) |->
               IF LastIndex(fn, c) <= Len(rec) THEN rec[LastIndex(fn, c)]
               ELSE None],
   rest |-> IF Len(fn) < Len(rec) THEN SubSeq(rec, Len(fn) + 1, Len(rec))
            ELSE <<>>]

\* row.get(key, default)
Get(row, key, default) == IF key \in DOMAIN row.d THEN row.d[key] ELSE default

\* index of the next non-blank record at or after p, 0 when there is none
\* (DictReader skips records equal to [])
NextData(f, p) == IF \E k \in p..Len(f) : f[k] # <<>>
                  THEN CHOOSE k \in p..Len(f) :
                         f[k] # <<>> /\ \A m \in p..(k-1) : f[m] = <<>>
                  ELSE 0

(* ------------------- validate_products_csv.py -------------------------- *)
REQ == <<"sku","name","aliases","category","skin_types","key_ingredients",
         "claims","fragrance_free","oil_based","condom_compatible","size_ml",
         "price","usage","contraindications","notes">>

BoolCols == <<"fragrance_free","oil_based","condom_compatible">>

\* one line of standard output
Line(kind, n, sku, items) == [kind |-> kind, n |-> n, sku |-> sku, items |-> items]

\* one entry of errs (or one reported column of the Missing columns line)
Item(e, col, raw) == [e |-> e, col |-> col, raw |-> raw]

\* Norm without the trimming: str(x).lower()
NormNoStrip(v) == Lower(PyStr(v))

\* str(x).strip().lower()
Norm(v) == Lower(Strip(PyStr(v)))

\* [c for c in REQ if c not in r.fieldnames]
MissingCols(fn) == SelectSeq(REQ, LAMBDA c : c \notin Range(fn))

\* v not in {"true","false"} for column b of the row
BadFlag(row, b) == Norm(Get(row, b, sEmpty)) \notin {sTrue, sFalse}

\* f"{b}='{row.get(b)}' not true/false"
FlagErr(row, b) == Item("not true/false", b, PyStr(Get(row, b, None)))

FlagErrs(row) == SelectSeq([k \in 1..Len(BoolCols) |-> FlagErr(row, BoolCols[k])],
                           LAMBDA x : BadFlag(row, x.col))

\* CrossViolated demanding condom_compatible == "true" instead of != "false"
CrossViolatedOnTrue(row) == /\ Norm(Get(row, "oil_based", sEmpty)) = sTrue
                            /\ Norm(Get(row, "condom_compatible", sEmpty)) = sTrue

CrossViolated(row) == /\ Norm(Get(row, "oil_based", sEmpty)) = sTrue
                      /\ Norm(Get(row, "condom_compatible", sEmpty)) # sFalse

CrossErr == Item("oil_based=true must imply condom_compatible=false", "", <<>>)

\* not str(row.get(col,"")).strip()
EmptyId(row, col) == Strip(PyStr(Get(row, col, sEmpty))) = <<>>

\* the errs list of one row, in the order the checks append to it
RowErrs(row) ==
  FlagErrs(row)
  \o (IF CrossViolated(row) THEN <<CrossErr>> ELSE <<>>)
  \o (IF EmptyId(row, "sku") THEN <<Item("sku empty", "", <<>>)>> ELSE <<>>)
  \o (IF EmptyId(row, "name") THEN <<Item("name empty", "", <<>>)>> ELSE <<>>)

\* row.get('sku','?') as the f-string prints it
SkuDisplay(row) == PyStr(Get(row, "sku", sQuestion))

\* SummaryLine without the "OK" case
SummaryLineNoOk(b) == Line("row(s) need fixes", b, <<>>, <<>>)

\* "OK" if bad == 0 else f"{bad} row(s) need fixes"
SummaryLine(b) == IF b = 0 THEN Line("OK", 0, <<>>, <<>>)
                  ELSE Line("row(s) need fixes", b, <<>>, <<>>)

\* SummaryExit of a script that ended with sys.exit(1 if bad else 0)
SummaryExitOnBad(b) == IF b = 0 THEN 0 ELSE 1

\* the script ends after the summary without sys.exit: status 0
SummaryExit(b) == 0

\* an uncaught exception ends the interpreter with status 1
UncaughtExit == 1

(* --------------------- add_missing_columns.py -------------------------- *)
need == <<"aliases","skin_types","oil_based","condom_compatible","notes">>

\* defaults with a placeholder text instead of the empty text
defaultsPlaceholder == [k \in Range(need) |-> sX]

defaults == [k \in Range(need) |-> sEmpty]

\* AddNeed without the test "k not in fieldnames"
AddNeedAlways(fn, ks) == fn \o ks

\* for k in need: if k not in fieldnames: fieldnames.append(k)
RECURSIVE AddNeed(_, _)
AddNeed(fn, ks) ==
  IF ks = <<>> THEN fn
  ELSE AddNeed(IF Head(ks) \in Range(fn) THEN fn ELSE Append(fn, Head(ks)),
               Tail(ks))

\* r.fieldnames or []
FieldnamesOrEmpty(f) == IF ReaderFieldnames(f) = None THEN <<>>
                        ELSE ReaderFieldnames(f)

EnrichedFieldnames(f) == AddNeed(FieldnamesOrEmpty(f), need)

\* for k in need: row.setdefault(k, defaults[k])
SetDefaults(row) ==
  [row EXCEPT !.d = [c \in (DOMAIN row.d) \cup Range(need) |->
                       IF c \in DOMAIN row.d THEN row.d[c] ELSE defaults[c]]]

\* DictWriter (extrasaction="raise"): keys of the row that are no fieldnames
HasWrongFields(row, fn) == \/ row.rest # <<>>
                           \/ \E c \in DOMAIN row.d : c \notin Range(fn)

\* the csv writer writes None as the empty text
WriteField(v) == IF v = None THEN sEmpty ELSE v

\* DictWriter._dict_to_list followed by the writer's conversion of each value
DictToList(row, fn) == [k \in 1..Len(fn) |-> WriteField(Get(row, fn[k], sEmpty))]

NoFile == [exists |-> FALSE, recs |-> <<>>]

\* open(out_path, "w") followed by w.writeheader()
WriteHeader(fn) == [exists |-> TRUE, recs |-> <<HeaderRecord(fn)>>]

\* raise SystemExit("File not found: ...")
SystemExitStatus == 1

\* largest number of consecutive runs of the enricher, each on the output
\* of the run before
MaxRuns == 2

(* ------------------------------ inputs --------------------------------- *)
Reverse(s) == [k \in 1..Len(s) |-> s[Len(s) + 1 - k]]

\* a record of n fields: rec cut to n fields, or padded with filler fields
Fit(rec, n) == IF n <= Len(rec) THEN SubSeq(rec, 1, n)
               ELSE rec \o [k \in 1..(n - Len(rec)) |-> sX]

\* all files made of the header h followed by up to MaxRows records of rs
FilesOf(h, rs) ==
  {<<HeaderRecord(h)>> \o b : b \in UNION {[1..n -> rs] : n \in 0..MaxRows}}

\* headers of the validator's inputs that hold every required column
BrandRev == <<"brand">> \o Reverse(REQ)
GoodHeaders == {REQ, BrandRev}

\* headers of the validator's inputs that lack required columns
BadHeaders == {<<>>, <<"sku","name">>,
               Reverse(SelectSeq(REQ, LAMBDA c : c \notin {"oil_based","price"}))}

\* the values of the checked columns of one row; other columns hold a filler
Cells(ff, ob, cc, sku, name) ==
  [c \in Range(BrandRev) |->
     CASE c = "fragrance_free"    -> ff
       [] c = "oil_based"         -> ob
       [] c = "condom_compatible" -> cc
       [] c = "sku"               -> sku
       [] c = "name"              -> name
       [] OTHER                   -> sX]

\* rows of the header's length: a clean row, rows for the cases of the
\* flag and cross-field checks, rows for the cases of the identifier checks
FullCells ==
  {Cells(sTrue, sFalse, sTrue, sS1, sA),
   Cells(sTrue, sTruePad, sYes, sS1, sA),
   Cells(sTrue, sTrue, sTrue, sS1, sA),
   Cells(sTrue, sTrue, sFalsePad, sS1, sA),
   Cells(sTrue, sYes, sTrue, sS1, sA),
   Cells(sTrue, sFalse, sYes, sS1, sA),
   Cells(sEmpty, sFalse, sTrue, sS1, sA),
   Cells(sTrue, sFalse, sTrue, sEmpty, sA),
   Cells(sTrue, sFalse, sTrue, sBlank, sBlank)}

\* the record of the cells c under the header h
Layout(h, c) == [k \in 1..Len(h) |-> c[h[k]]]

\* records of the header's length, and records that are blank, shorter or
\* longer than the header
VRows(h) ==
  {Layout(h, c) : c \in FullCells}
  \cup
  {Fit(Layout(h, Cells(sTrue, sFalse, sTrue, sS1, sA)), n) :
     n \in {0, 1, 14, Len(h) + 1}}
  \cup
  {Fit(Layout(h, Cells(sTrue, sTruePad, sFalse, sS1, sA)), 9)}

VFiles == {<<>>}
          \cup UNION {FilesOf(h, VRows(h)) : h \in GoodHeaders}
          \cup UNION {FilesOf(h, {<<>>, <<sEmpty, sA>>}) : h \in BadHeaders}

\* headers of the enricher's inputs
EHeaders == {<<>>, <<"sku">>, <<"sku","notes">>, <<"notes","sku","aliases">>,
             <<"sku","name","sku">>,
             <<"notes","condom_compatible","sku","oil_based","skin_types","aliases">>}

Digits == <<"1","2","3","4","5","6","7","8">>

\* records of every length up to one field more than the header with a
\* different text in every field, and a record of empty texts
ERows(h) == {[k \in 1..n |-> <<Digits[k]>>] : n \in 0..(Len(h) + 1)}
            \cup {[k \in 1..Len(h) |-> sEmpty]}

EFiles == {<<>>} \cup UNION {FilesOf(h, ERows(h)) : h \in EHeaders}

\* the output path before the run: absent, or an older file
OldOut == {NoFile, [exists |-> TRUE, recs |-> <<HeaderRecord(<<"old">>), <<sX>>>>]}

(* ------------------------------ state ---------------------------------- *)
Init ==
  /\ tool \in {"validate", "enrich"}
  /\ exists \in BOOLEAN
  /\ file \in (IF ~exists THEN {<<>>}
               ELSE IF tool = "validate" THEN VFiles ELSE EFiles)
  /\ pc = "start"
  /\ fieldnames = <<>>
  /\ pos = 2
  /\ i = 2
  /\ bad = 0
  /\ stdout = <<>>
  /\ err = ""
  /\ exit = {}
  /\ rows = <<>>
  /\ out \in (IF tool = "enrich" THEN OldOut ELSE {NoFile})
  /\ run = 1
  /\ out1 = NoFile

(* --------------------------- Row Validator ----------------------------- *)
\* if not os.path.exists(PATH): print; sys.exit(1)
VFileNotFound ==
  /\ tool = "validate" /\ pc = "start" /\ ~exists
  /\ stdout' = Append(stdout, Line("File not found", 0, <<>>, <<>>))
  /\ exit' = {1}
  /\ pc' = "done"
  /\ UNCHANGED <<tool, exists, file, fieldnames, pos, i, bad, err, rows, out, run, out1>>

\* c not in r.fieldnames with r.fieldnames = None: TypeError, nothing printed
VNoHeader ==
  /\ tool = "validate" /\ pc = "start" /\ exists
  /\ ReaderFieldnames(file) = None
  /\ err' = "TypeError"
  /\ exit' = {UncaughtExit}
  /\ pc' = "done"
  /\ UNCHANGED <<tool, exists, file, fieldnames, pos, i, bad, stdout, rows, out, run, out1>>

\* if missing_cols: print("Missing columns:", ...); sys.exit(1)
VMissingCols ==
  /\ tool = "validate" /\ pc = "start" /\ exists
  /\ ReaderFieldnames(file) # None
  /\ MissingCols(ReaderFieldnames(file)) # <<>>
  /\ fieldnames' = ReaderFieldnames(file)
  /\ stdout' = Append(stdout,
       Line("Missing columns", 0, <<>>,
            [k \in 1..Len(MissingCols(ReaderFieldnames(file))) |->
               Item("missing", MissingCols(ReaderFieldnames(file))[k], <<>>)]))
  /\ exit' = {1}
  /\ pc' = "done"
  /\ UNCHANGED <<tool, exists, file, pos, i, bad, err, rows, out, run, out1>>

\* the header holds every required column: go on to the rows
VSchemaOk ==
  /\ tool = "validate" /\ pc = "start" /\ exists
  /\ ReaderFieldnames(file) # None
  /\ MissingCols(ReaderFieldnames(file)) = <<>>
  /\ fieldnames' = ReaderFieldnames(file)
  /\ pc' = "rows"
  /\ UNCHANGED <<tool, exists, file, pos, i, bad, stdout, err, exit, rows, out, run, out1>>

\* one pass of: for i, row in enumerate(r, start=2)
VRow ==
  /\ tool = "validate" /\ pc = "rows"
  /\ NextData(file, pos) # 0
  /\ LET k    == NextData(file, pos)
         row  == DictRow(fieldnames, file[k])
         errs == RowErrs(row)
     IN /\ pos' = k + 1
        /\ i' = i + 1
        /\ IF errs # <<>>
           THEN /\ bad' = bad + 1
                /\ stdout' = Append(stdout, Line("Row", i, SkuDisplay(row), errs))
           ELSE UNCHANGED <<bad, stdout>>
  /\ UNCHANGED <<tool, exists, file, pc, fieldnames, err, exit, rows, out, run, out1>>

\* print("OK" if bad == 0 else f"{bad} row(s) need fixes") and the end
VSummary ==
  /\ tool = "validate" /\ pc = "rows"
  /\ NextData(file, pos) = 0
  /\ stdout' = Append(stdout, SummaryLine(bad))
  /\ exit' = {SummaryExit(bad)}
  /\ pc' = "done"
  /\ UNCHANGED <<tool, exists, file, fieldnames, pos, i, bad, err, rows, out, run, out1>>

(* -------------------------- Column Enricher ---------------------------- *)
\* if not os.path.exists(in_path): raise SystemExit(...)
EFileNotFound ==
  /\ tool = "enrich" /\ pc = "start" /\ ~exists
  /\ err' = "SystemExit"
  /\ exit' = {SystemExitStatus}
  /\ pc' = "done"
  /\ UNCHANGED <<tool, exists, file, fieldnames, pos, i, bad, stdout, rows, out, run, out1>>

\* fieldnames = list(r.fieldnames or []) and the appending of need
EReadHeader ==
  /\ tool = "enrich" /\ pc = "start" /\ exists
  /\ fieldnames' = EnrichedFieldnames(file)
  /\ pos' = 2
  /\ pc' = "read"
  /\ UNCHANGED <<tool, exists, file, i, bad, stdout, err, exit, rows, out, run, out1>>

\* one pass of: for row in r
EReadRow ==
  /\ tool = "enrich" /\ pc = "read"
  /\ NextData(file, pos) # 0
  /\ LET k == NextData(file, pos)
     IN /\ rows' = Append(rows, SetDefaults(DictRow(FieldnamesOrEmpty(file), file[k])))
        /\ pos' = k + 1
  /\ UNCHANGED <<tool, exists, file, pc, fieldnames, i, bad, stdout, err, exit, out, run, out1>>

\* open(out_path, "w"); w.writeheader()
EWriteHeader ==
  /\ tool = "enrich" /\ pc = "read"
  /\ NextData(file, pos) = 0
  /\ out' = WriteHeader(fieldnames)
  /\ pos' = 1
  /\ pc' = "write"
  /\ UNCHANGED <<tool, exists, file, fieldnames, i, bad, stdout, err, exit, rows, run, out1>>

\* w.writerows(rows), one row
EWriteRow ==
  /\ tool = "enrich" /\ pc = "write"
  /\ pos <= Len(rows)
  /\ ~HasWrongFields(rows[pos], fieldnames)
  /\ out' = [out EXCEPT !.recs = Append(@, DictToList(rows[pos], fieldnames))]
  /\ pos' = pos + 1
  /\ UNCHANGED <<tool, exists, file, pc, fieldnames, i, bad, stdout, err, exit, rows, run, out1>>

\* w.writerows(rows) at a row with a key that is no fieldname: ValueError;
\* the file keeps what was written before
EWriteError ==
  /\ tool = "enrich" /\ pc = "write"
  /\ pos <= Len(rows)
  /\ HasWrongFields(rows[pos], fieldnames)
  /\ err' = "ValueError"
  /\ exit' = {UncaughtExit}
  /\ pc' = "done"
  /\ UNCHANGED <<tool, exists, file, fieldnames, pos, i, bad, stdout, rows, out, run, out1>>

\* print(f"Wrote {out_path} with columns: ...") and the end
EPrint ==
  /\ tool = "enrich" /\ pc = "write"
  /\ pos > Len(rows)
  /\ stdout' = Append(stdout,
       Line("Wrote", 0, <<>>,
            [k \in 1..Len(fieldnames) |-> Item("column", fieldnames[k], <<>>)]))
  /\ exit' = {0}
  /\ pc' = "done"
  /\ UNCHANGED <<tool, exists, file, fieldnames, pos, i, bad, err, rows, out, run, out1>>

\* a further invocation whose in_path is the file the run before wrote,
\* with an out_path that does not exist yet
ERerun ==
  /\ tool = "enrich" /\ pc = "done"
  /\ err # "SystemExit"
  /\ run < MaxRuns
  /\ run' = run + 1
  /\ file' = out.recs
  /\ out1' = out
  /\ out' = NoFile
  /\ pc' = "start"
  /\ fieldnames' = <<>>
  /\ pos' = 2
  /\ stdout' = <<>>
  /\ err' = ""
  /\ exit' = {}
  /\ rows' = <<>>
  /\ UNCHANGED <<tool, exists, i, bad>>

Next == \/ VFileNotFound \/ VNoHeader \/ VMissingCols \/ VSchemaOk
        \/ VRow \/ VSummary
        \/ EFileNotFound \/ EReadHeader \/ EReadRow \/ EWriteHeader
        \/ EWriteRow \/ EWriteError \/ EPrint \/ ERerun

Spec == Init /\ [][Next]_vars

(* ===================== properties of the Row Validator ================== *)
\* the data rows of the input: the non-blank records after the header
DataRecs == IF file = <<>> THEN <<>> ELSE SelectSeq(Tail(file), LAMBDA r : r # <<>>)

\* the set of column names of the input's header line (empty without one)
HeaderCols == IF file = <<>> THEN {} ELSE {file[1][j][1] : j \in 1..Len(file[1])}

SchemaLacks == \E k \in 1..Len(REQ) : REQ[k] \notin HeaderCols

\* the number of data rows the loop has gone through
Checked == i - 2

ColPos(c) == CHOOSE j \in 1..Len(file[1]) : file[1][j] = <<c>>

\* the k-th data row has a value in column c
Present(k, c) == ColPos(c) <= Len(DataRecs[k])

\* that value, as it stands in the file
Cell(k, c) == DataRecs[k][ColPos(c)]

\* positions in stdout of the report lines of the k-th data row
LinesOf(k) == {m \in 1..Len(stdout) : stdout[m].kind = "Row" /\ stdout[m].n = k + 1}

\* the k-th data row is reported with an error e about column col
Reported(k, e, col) ==
  \E m \in LinesOf(k) : \E x \in 1..Len(stdout[m].items) :
     stdout[m].items[x].e = e /\ stdout[m].items[x].col = col

\* the sample texts that read as true, and as false, when trimmed and lowercased
TrueTexts  == {sTrue, sTruePad}
FalseTexts == {sFalse, sFalsePad}

ValidFlag(k, b) == Present(k, b) /\ Cell(k, b) \in TrueTexts \cup FalseTexts

\* C1: an input whose header lacks required columns (or that has no header)
\* gets exactly one output line, naming exactly the missing required columns
\* in the order of the required list, and status 1; no row line, no summary.
C1_SchemaReport ==
  (tool = "validate" /\ pc = "done" /\ exists /\ SchemaLacks) =>
    /\ exit = {1}
    /\ Len(stdout) = 1
    /\ stdout[1].kind = "Missing columns"
    /\ \A c \in Range(REQ) :
         (c \notin HeaderCols) <=>
           (\E x \in 1..Len(stdout[1].items) : stdout[1].items[x].col = c)
    /\ \A x, y \in 1..Len(stdout[1].items) :
         x < y => \E a, b \in 1..Len(REQ) :
                    /\ a < b
                    /\ REQ[a] = stdout[1].items[x].col
                    /\ REQ[b] = stdout[1].items[y].col

\* C2: the validator ends with status 1 exactly when the input file is
\* missing or its header lacks a required column, and with status 0 in every
\* other run, whatever the number of rows with errors.
C2_ExitStatus ==
  (tool = "validate" /\ pc = "done") =>
    exit = (IF ~exists \/ SchemaLacks THEN {1} ELSE {0})

\* a run of at least two data rows, every one reported, that ends with status 0
C2_Witness ==
  /\ tool = "validate" /\ pc = "done" /\ exit = {0}
  /\ Len(DataRecs) >= 2
  /\ \A k \in 1..Len(DataRecs) : LinesOf(k) # {}

\* C3: for every checked data row and each boolean-flag column, the error
\* naming that column is reported exactly when the value does not read as
\* true or false after trimming and lowercasing (an empty or absent value is
\* an error), and the error shows the value as it stands in the file.
C3_BooleanFlags ==
  tool = "validate" =>
    \A k \in 1..Checked : \A y \in 1..Len(BoolCols) :
      /\ Reported(k, "not true/false", BoolCols[y]) <=> ~ValidFlag(k, BoolCols[y])
      /\ Present(k, BoolCols[y]) =>
           \A m \in LinesOf(k) : \A x \in 1..Len(stdout[m].items) :
              (stdout[m].items[x].e = "not true/false"
                 /\ stdout[m].items[x].col = BoolCols[y])
              => stdout[m].items[x].raw = Cell(k, BoolCols[y])

\* a finished scan with a padded upper-case TRUE that is accepted, an empty
\* flag and an absent flag that are both reported
C3_Witness ==
  /\ tool = "validate" /\ pc = "done" /\ exit = {0}
  /\ \E k \in 1..Checked :
       /\ Present(k, "oil_based") /\ Cell(k, "oil_based") = sTruePad
       /\ ~Reported(k, "not true/false", "oil_based")
       /\ ~Present(k, "condom_compatible")
       /\ Reported(k, "not true/false", "condom_compatible")
  /\ \E k \in 1..Checked :
       /\ Present(k, "fragrance_free") /\ Cell(k, "fragrance_free") = sEmpty
       /\ Reported(k, "not true/false", "fragrance_free")

CrossMsg == "oil_based=true must imply condom_compatible=false"

\* C4: for every checked data row the cross-field error is reported exactly
\* when oil_based reads as true and condom_compatible does not read as
\* false; with a condom_compatible that is no boolean the row line carries
\* both errors, with a condom_compatible reading as true only the
\* cross-field one.
C4_CrossField ==
  tool = "validate" =>
    \A k \in 1..Checked :
      /\ Reported(k, CrossMsg, "") <=>
           /\ Present(k, "oil_based") /\ Cell(k, "oil_based") \in TrueTexts
           /\ ~(Present(k, "condom_compatible")
                  /\ Cell(k, "condom_compatible") \in FalseTexts)
      /\ (Reported(k, CrossMsg, "") /\ ~ValidFlag(k, "condom_compatible"))
           => /\ Cardinality(LinesOf(k)) = 1
              /\ Reported(k, "not true/false", "condom_compatible")
      /\ (Reported(k, CrossMsg, "") /\ ValidFlag(k, "condom_compatible"))
           => ~Reported(k, "not true/false", "condom_compatible")

\* a finished scan with a row carrying both errors and a row carrying the
\* cross-field error alone
C4_Witness ==
  /\ tool = "validate" /\ pc = "done" /\ exit = {0}
  /\ \E k \in 1..Checked :
       /\ Present(k, "condom_compatible") /\ Cell(k, "condom_compatible") = sYes
       /\ Reported(k, CrossMsg, "")
       /\ Reported(k, "not true/false", "condom_compatible")
  /\ \E k \in 1..Checked :
       /\ Present(k, "condom_compatible") /\ Cell(k, "condom_compatible") = sTrue
       /\ Reported(k, CrossMsg, "")
       /\ ~Reported(k, "not true/false", "condom_compatible")

\* the k-th data row has no sku (name), or an empty or whitespace-only one
BlankId(k, c) == ~Present(k, c) \/ Cell(k, c) \in {sEmpty, sBlank}

\* C5: for every checked data row, "sku empty" ("name empty") is reported
\* exactly when the row's sku (name) is empty, whitespace-only or absent.
C5_EmptyIdentifier ==
  tool = "validate" =>
    \A k \in 1..Checked :
      /\ Reported(k, "sku empty", "") <=> BlankId(k, "sku")
      /\ Reported(k, "name empty", "") <=> BlankId(k, "name")

\* C6: every checked data row with an error is reported on exactly one
\* line, numbered one more than the row's rank among the data rows, showing
\* the row's sku, or "?" when the sku is absent or empty.
C6_ReportLine ==
  tool = "validate" =>
    \A k \in 1..Checked :
      /\ Cardinality(LinesOf(k)) <= 1
      /\ \A m \in LinesOf(k) :
           /\ stdout[m].items # <<>>
           /\ stdout[m].sku = (IF ~Present(k, "sku") \/ Cell(k, "sku") = sEmpty
                               THEN sQuestion ELSE Cell(k, "sku"))

\* the data rows for which the checks of the loop body produce an error
RowsWithErrors ==
  {k \in 1..Len(DataRecs) : RowErrs(DictRow(fieldnames, DataRecs[k])) # <<>>}

\* C7: once the schema check has passed the scan ends after the last data
\* row, having gone through every data row; rows with errors have one line
\* each and the others none; the last line printed is the summary, "OK"
\* exactly when no row had an error, else the number of rows with errors.
C7_ScanAndSummary ==
  (tool = "validate" /\ pc = "done" /\ exists /\ ~SchemaLacks) =>
    /\ Checked = Len(DataRecs)
    /\ \A k \in 1..Len(DataRecs) :
         Cardinality(LinesOf(k)) = (IF k \in RowsWithErrors THEN 1 ELSE 0)
    /\ Len(stdout) = Cardinality(RowsWithErrors) + 1
    /\ stdout[Len(stdout)] =
         (IF RowsWithErrors = {} THEN Line("OK", 0, <<>>, <<>>)
          ELSE Line("row(s) need fixes", Cardinality(RowsWithErrors), <<>>, <<>>))

\* a finished scan whose first row has several errors, followed by a clean
\* row: the summary counts one row
C7_Witness ==
  /\ tool = "validate" /\ pc = "done" /\ exit = {0}
  /\ Len(DataRecs) >= 2
  /\ 1 \in RowsWithErrors /\ 2 \notin RowsWithErrors
  /\ Len(stdout[1].items) >= 2
  /\ stdout[Len(stdout)].kind = "row(s) need fixes"
  /\ stdout[Len(stdout)].n = 1

(* ==================== properties of the Column Enricher ================= *)
\* the column names of the input's header line, in order
InHeader == IF file = <<>> THEN <<>> ELSE [j \in 1..Len(file[1]) |-> file[1][j][1]]

\* the optional columns the input's header lacks, in the fixed order
Absent == SelectSeq(need, LAMBDA c : \A j \in 1..Len(InHeader) : InHeader[j] # c)

\* this run has opened and begun the output file
Writing == tool = "enrich" /\ (pc = "write" \/ (pc = "done" /\ err # "SystemExit"))

\* this run has ended after reading its input
Ended == tool = "enrich" /\ pc = "done" /\ err # "SystemExit"

\* C8: the output header is the input header in its order followed by the
\* optional columns the input lacked, in the fixed order; every output row
\* holds the empty text in each appended column.
C8_ColumnOrder ==
  Writing =>
    /\ out.exists
    /\ out.recs[1] = [j \in 1..(Len(InHeader) + Len(Absent)) |->
                        IF j <= Len(InHeader) THEN <<InHeader[j]>>
                        ELSE <<Absent[j - Len(InHeader)]>>]
    /\ \A k \in 2..Len(out.recs) :
         /\ Len(out.recs[k]) = Len(InHeader) + Len(Absent)
         /\ \A j \in (Len(InHeader) + 1)..Len(out.recs[k]) : out.recs[k][j] = sEmpty

\* a finished run on a header holding some optional columns, not in the
\* fixed order, and lacking others, with a row written
C8_Witness ==
  /\ Ended /\ exit = {0} /\ run = 1
  /\ InHeader = <<"notes","sku","aliases">>
  /\ Len(out.recs) >= 2
  /\ out.recs[2][1] # sEmpty

\* C9: the output holds the header line and one row per input data row, in
\* the same order, and every value of the input stands unchanged in its
\* column of the output.
C9_RowPreservation ==
  Ended =>
    /\ Len(out.recs) = 1 + Len(DataRecs)
    /\ \A k \in 1..Len(DataRecs) :
         \A j \in 1..Len(InHeader) :
            j <= Len(DataRecs[k]) => out.recs[k + 1][j] = DataRecs[k][j]

\* C10: a run on the output of the run before ends normally, appends no
\* column, and writes an output file whose header and rows equal its input's.
C10_Idempotence ==
  (tool = "enrich" /\ run >= 2 /\ pc = "done") =>
    /\ exit = {0}
    /\ fieldnames = InHeader
    /\ out.exists
    /\ out.recs = out1.recs
    /\ out.recs = file

\* a second run that has ended, on a first output with rows and with
\* columns the first run had appended
C10_Witness ==
  /\ tool = "enrich" /\ run = 2 /\ pc = "done"
  /\ out.exists
  /\ Len(out.recs) >= 3
  /\ out.recs[1][1] = <<"sku">>
  /\ Len(out.recs[1]) = 1 + Len(need)

====
